---- MODULE Spec2Model ----
(***************************************************************************)
(* A model of script.js (the four asset-fetching methods and the patch     *)
(* dispatch) and of the nested-promise example of README.md, on a logical  *)
(* clock.  The host (Spark AR) settles the promises it handed out; the     *)
(* script's callbacks run as promise jobs, first in first out, each to     *)
(* completion.                                                             *)
(***************************************************************************)
EXTENDS Integers, Sequences, FiniteSets

VARIABLES
    variant,    \* "script" (script.js) or "nested" (the README's nested example)
    scalar,     \* the Patches.outputs.getScalar promise: pending, resolved, rejected
    patch,      \* the value pinLastValue() returns
    method,     \* index of the method that was invoked, -1 before
    invoked,    \* every index of methods that was called, in order
    microtasks, \* the promise job queue
    lstate,     \* the three lookups: unissued, pending, resolved, rejected
    lvalue,     \* what a resolved lookup resolved with
    due,        \* the time at which the host settles a pending lookup
    lat,        \* the latency the host took for an issued lookup
    now,        \* Date.now()
    start,      \* the script's timer variable
    allState,   \* the Promise.all promise: none, pending, resolved, rejected
    allValues,  \* the result array Promise.all is filling
    remaining,  \* how many elements Promise.all still waits for
    allErr,     \* the reason Promise.all rejected with
    bound,      \* the values of faceMesh, faceMat, tex in the method body
    body,       \* the "Do stuff" block: notrun, ran, threw
    log,        \* the Diagnostics.log calls, in order
    writes,     \* the property assignments, in order
    unhandled   \* rejections no handler received

vars == <<variant, scalar, patch, method, invoked, microtasks, lstate, lvalue,
          due, lat, now, start, allState, allValues, remaining, allErr, bound,
          body, log, writes, unhandled>>

\* ---------------------------------------------------------------- bounds
MaxPatch == 5
MaxLat == 3
MaxStart == 1

\* ------------------------------------------------------------- constants
Lookups == 1..3
Null == "null"
Unbound == "unbound"
\* the assets the three lookups ask for, in the order they are asked for
AssetName == <<"faceMesh0", "material0", "texture0">>
\* the error each lookup rejects with
LookupErr == <<"errMesh", "errMat", "errTex">>
ScalarErr == "errScalar"
TypeError == "TypeError"
NoErr == "none"

methods == <<"deprecatedMethods", "promiseAllMethods", "asyncAwaitMethods",
             "asyncAndPromiseAllMethods">>

PatchValues == (-MaxPatch)..MaxPatch
Latencies == 1..MaxLat

\* ------------------------------------------------------------- operators
\* JavaScript's %: the remainder takes the sign of the dividend
JsRem(a, b) == IF a >= 0 THEN a % b ELSE -((-a) % b)

\* methods[ index.pinLastValue() % methods.length ] : the index used
MethodIndex(v) == JsRem(v, Len(methods))

Max2(a, b) == IF a >= b THEN a ELSE b
Max3(f) == Max2(f[1], Max2(f[2], f[3]))

Job(t, i, e) == [t |-> t, i |-> i, err |-> e]

StartMsg(m) == [kind |-> "start", m |-> m, elapsed |-> 0, err |-> NoErr]
DoneMsg(m, e) == [kind |-> "done", m |-> m, elapsed |-> e, err |-> NoErr]
ErrorMsg(e) == [kind |-> "error", m |-> -1, elapsed |-> 0, err |-> e]

Write(o, p, v) == [obj |-> o, prop |-> p, val |-> v]

\* faceMat.diffuse = tex; faceMesh.material = faceMat;
\* an assignment to a property of null throws and ends the block
Nullish(x) == x \in {Null, Unbound}

\* faulty variant: the texture is assigned to the mesh instead of the material
DoStuffWritesWrongTarget(faceMesh, faceMat, tex) ==
    IF Nullish(faceMat) THEN <<>>
    ELSE IF Nullish(faceMesh) THEN <<Write(faceMat, "diffuse", tex)>>
    ELSE <<Write(faceMesh, "diffuse", tex), Write(faceMesh, "material", faceMat)>>

\* faulty variant: the two assignments in the other order
DoStuffWritesSwapped(faceMesh, faceMat, tex) ==
    IF Nullish(faceMesh) THEN <<>>
    ELSE IF Nullish(faceMat) THEN <<Write(faceMesh, "material", faceMat)>>
    ELSE <<Write(faceMesh, "material", faceMat), Write(faceMat, "diffuse", tex)>>

DoStuffWrites(faceMesh, faceMat, tex) ==
    IF Nullish(faceMat) THEN <<>>
    ELSE IF Nullish(faceMesh) THEN <<Write(faceMat, "diffuse", tex)>>
    ELSE <<Write(faceMat, "diffuse", tex), Write(faceMesh, "material", faceMat)>>

DoStuffThrows(faceMesh, faceMat) == Nullish(faceMat) \/ Nullish(faceMesh)

\* a rejection or a throw reaches the handler chained on it, if there is one
Raise(rest, handler, e) ==
    IF handler = "none"
    THEN /\ microtasks' = rest
         /\ unhandled' = unhandled \cup {e}
    ELSE /\ microtasks' = Append(rest, Job(handler, 0, e))
         /\ unhandled' = unhandled

\* faulty variant: the timer is never subtracted
ElapsedAbsolute(t, s) == t

\* Date.now() - start
Elapsed(t, s) == t - s

\* the "Do stuff" block and the completion message that follows it
BodyEffect(rest, handler, lg, t, logsDone, faceMesh, faceMat, tex) ==
    /\ bound' = <<faceMesh, faceMat, tex>>
    /\ writes' = writes \o DoStuffWrites(faceMesh, faceMat, tex)
    /\ IF DoStuffThrows(faceMesh, faceMat)
       THEN /\ body' = "threw"
            /\ log' = lg
            /\ Raise(rest, handler, TypeError)
       ELSE /\ body' = "ran"
            /\ log' = IF logsDone THEN Append(lg, DoneMsg(method', Elapsed(t, start'))) ELSE lg
            /\ microtasks' = rest
            /\ unhandled' = unhandled

HeadIs(t) == microtasks # <<>> /\ Head(microtasks).t = t

\* ------------------------------------------------------------------ Init
InitCommon ==
    /\ patch = 0
    /\ method = -1
    /\ invoked = <<>>
    /\ lvalue = [i \in Lookups |-> Null]
    /\ now \in 0..MaxStart
    /\ start = 0
    /\ allState = "none"
    /\ allValues = [i \in Lookups |-> Unbound]
    /\ remaining = 0
    /\ allErr = NoErr
    /\ bound = <<Unbound, Unbound, Unbound>>
    /\ body = "notrun"
    /\ log = <<>>
    /\ writes = <<>>
    /\ unhandled = {}

Init ==
    /\ InitCommon
    /\ variant = "script"
    /\ scalar = "pending"
    /\ microtasks = <<>>
    /\ lstate = [i \in Lookups |-> "unissued"]
    /\ due = [i \in Lookups |-> 0]
    /\ lat = [i \in Lookups |-> 0]

\* ------------------------------------------------------- the host's side
ScalarResolve ==
    /\ variant = "script"
    /\ scalar = "pending"
    /\ \E v \in PatchValues : patch' = v
    /\ scalar' = "resolved"
    /\ microtasks' = Append(microtasks, Job("dispatch", 0, NoErr))
    /\ UNCHANGED <<variant, method, invoked, lstate, lvalue, due, lat, now, start,
                   allState, allValues, remaining, allErr, bound, body, log,
                   writes, unhandled>>

ScalarReject ==
    /\ variant = "script"
    /\ scalar = "pending"
    /\ scalar' = "rejected"
    /\ microtasks' = Append(microtasks, Job("chaincatch", 0, ScalarErr))
    /\ UNCHANGED <<variant, patch, method, invoked, lstate, lvalue, due, lat, now,
                   start, allState, allValues, remaining, allErr, bound, body, log,
                   writes, unhandled>>

LookupResolve(i) ==
    /\ lstate[i] = "pending"
    /\ now = due[i]
    /\ \E v \in {AssetName[i], Null} : lvalue' = [lvalue EXCEPT ![i] = v]
    /\ lstate' = [lstate EXCEPT ![i] = "resolved"]
    /\ microtasks' = Append(microtasks, Job("react", i, NoErr))
    /\ UNCHANGED <<variant, scalar, patch, method, invoked, due, lat, now, start,
                   allState, allValues, remaining, allErr, bound, body, log,
                   writes, unhandled>>

LookupReject(i) ==
    /\ lstate[i] = "pending"
    /\ now = due[i]
    /\ lstate' = [lstate EXCEPT ![i] = "rejected"]
    /\ microtasks' = Append(microtasks, Job("react", i, LookupErr[i]))
    /\ UNCHANGED <<variant, scalar, patch, method, invoked, lvalue, due, lat, now,
                   start, allState, allValues, remaining, allErr, bound, body, log,
                   writes, unhandled>>

\* time passes only while the script is idle and no pending lookup is due
Tick ==
    /\ microtasks = <<>>
    /\ \E i \in Lookups : lstate[i] = "pending"
    /\ \A i \in Lookups : lstate[i] = "pending" => due[i] > now
    /\ now' = now + 1
    /\ UNCHANGED <<variant, scalar, patch, method, invoked, microtasks, lstate,
                   lvalue, due, lat, start, allState, allValues, remaining, allErr,
                   bound, body, log, writes, unhandled>>

\* ----------------------------------------------------- script.js: dispatch
\* methods[ ... ] is undefined outside 0..3, and calling undefined throws
DispatchOutOfRange ==
    /\ HeadIs("dispatch")
    /\ MethodIndex(patch) \notin 0..(Len(methods) - 1)
    /\ Raise(Tail(microtasks), "chaincatch", TypeError)
    /\ UNCHANGED <<variant, scalar, patch, method, invoked, lstate, lvalue, due,
                   lat, now, start, allState, allValues, remaining, allErr, bound,
                   body, log, writes>>

\* the handler a method's rejection or throw reaches: its own .catch for the
\* three asynchronous methods, the getScalar chain's .catch for the synchronous one
Handler(m) == IF m = 0 THEN "chaincatch" ELSE "catch"

\* faulty variant: the handler swallows the error
LogStackSwallowed(e) == <<>>

\* err => Diagnostics.log(err.stack)
LogStack(e) == <<ErrorMsg(e)>>

SumTo(d, k) == IF k = 0 THEN 0
               ELSE IF k = 1 THEN d[1]
               ELSE IF k = 2 THEN d[1] + d[2]
               ELSE d[1] + d[2] + d[3]

\* 0. the synchronous calls block: each returns (an asset or null) or throws
\* before the next is made
DeprecatedMethods ==
    /\ HeadIs("dispatch")
    /\ MethodIndex(patch) = 0
    /\ method' = 0
    /\ invoked' = Append(invoked, 0)
    /\ start' = now
    /\ \E d \in [Lookups -> Latencies], o \in [Lookups -> {"asset", "null", "throw"}] :
        LET thrown == {i \in Lookups : o[i] = "throw"}
            k == IF thrown = {} THEN 4
                 ELSE CHOOSE i \in thrown : \A j \in thrown : i <= j
            last == IF k = 4 THEN 3 ELSE k
            val(i) == IF o[i] = "asset" THEN AssetName[i] ELSE Null
            t == now + SumTo(d, last)
        IN  /\ now' = t
            /\ lstate' = [i \in Lookups |-> IF i < k THEN "resolved"
                                            ELSE IF i = k THEN "rejected"
                                            ELSE "unissued"]
            /\ lvalue' = [i \in Lookups |-> IF i < k THEN val(i) ELSE Null]
            /\ lat' = [i \in Lookups |-> IF i <= last THEN d[i] ELSE 0]
            /\ due' = [i \in Lookups |-> IF i <= last THEN now + SumTo(d, i) ELSE 0]
            /\ IF k <= 3
               THEN /\ log' = Append(log, StartMsg(0))
                    /\ Raise(Tail(microtasks), Handler(0), LookupErr[k])
                    /\ UNCHANGED <<bound, body, writes>>
               ELSE BodyEffect(Tail(microtasks), Handler(0), Append(log, StartMsg(0)),
                               t, TRUE, val(1), val(2), val(3))
    /\ UNCHANGED <<variant, scalar, patch, allState, allValues, remaining, allErr>>

\* Promise.all([ findFirst, findFirst, findFirst ]): the three lookups are issued
\* while the array is built, then Promise.all waits for them
BatchStart(m) ==
    /\ HeadIs("dispatch")
    /\ MethodIndex(patch) = m
    /\ method' = m
    /\ invoked' = Append(invoked, m)
    /\ log' = Append(log, StartMsg(m))
    /\ start' = now
    /\ \E d \in [Lookups -> Latencies] :
        /\ lat' = d
        /\ due' = [i \in Lookups |-> now + d[i]]
    /\ lstate' = [i \in Lookups |-> "pending"]
    /\ allState' = "pending"
    /\ remaining' = 3
    /\ microtasks' = Tail(microtasks)
    /\ UNCHANGED <<variant, scalar, patch, lvalue, now, allValues, allErr, bound,
                   body, writes, unhandled>>

\* 1.
PromiseAllMethods == BatchStart(1)

\* 3.
AsyncAndPromiseAllMethods == BatchStart(3)

\* 2. the async function runs to its first await
AsyncAwaitMethods ==
    /\ HeadIs("dispatch")
    /\ MethodIndex(patch) = 2
    /\ method' = 2
    /\ invoked' = Append(invoked, 2)
    /\ log' = Append(log, StartMsg(2))
    /\ start' = now
    /\ \E d \in Latencies :
        /\ lat' = [lat EXCEPT ![1] = d]
        /\ due' = [due EXCEPT ![1] = now + d]
    /\ lstate' = [lstate EXCEPT ![1] = "pending"]
    /\ microtasks' = Tail(microtasks)
    /\ UNCHANGED <<variant, scalar, patch, lvalue, now, allState, allValues,
                   remaining, allErr, bound, body, writes, unhandled>>

\* ------------------------------------------------ script.js: Promise.all
\* faulty variant: the results are kept in the order they arrive
AllSlotArrival(i, k) == k

\* the place in the result array of the element requested i-th, which is the
\* k-th to resolve: "in the order we searched for them"
AllSlot(i, k) == i

\* faulty variant: resolves with the first element
AllResolvesEarly(rem) == rem <= 2

\* Promise.all resolves once no element is outstanding
AllResolves(rem) == rem = 0

\* faulty variant: every rejection is passed on
AllRejectsAlways(st) == TRUE

\* only the first rejection settles the Promise.all promise
AllRejects(st) == st = "pending"

AllReact ==
    /\ HeadIs("react")
    /\ variant = "script"
    /\ method \in {1, 3}
    /\ LET i == Head(microtasks).i
           rest == Tail(microtasks)
       IN IF lstate[i] = "resolved"
          THEN /\ allValues' = [allValues EXCEPT
                                  ![AllSlot(i, 3 - remaining + 1)] = lvalue[i]]
               /\ remaining' = remaining - 1
               /\ IF AllResolves(remaining - 1) /\ allState = "pending"
                  THEN /\ allState' = "resolved"
                       /\ microtasks' = Append(rest, Job("body", 0, NoErr))
                  ELSE /\ allState' = allState
                       /\ microtasks' = rest
               /\ UNCHANGED <<allErr, unhandled>>
          ELSE IF AllRejects(allState)
               THEN /\ allState' = "rejected"
                    /\ allErr' = LookupErr[i]
                    /\ Raise(rest, Handler(method), LookupErr[i])
                    /\ UNCHANGED <<allValues, remaining>>
               ELSE /\ microtasks' = rest
                    /\ UNCHANGED <<allState, allErr, allValues, remaining, unhandled>>
    /\ UNCHANGED <<variant, scalar, patch, method, invoked, lstate, lvalue, due,
                   lat, now, start, bound, body, log, writes>>

\* the then callback (1.) or the rest of the async function (3.)
AllBody ==
    /\ HeadIs("body")
    /\ UNCHANGED <<variant, scalar, patch, method, invoked, lstate, lvalue, due,
                   lat, now, start, allState, allValues, remaining, allErr>>
    /\ BodyEffect(Tail(microtasks), Handler(method), log, now, TRUE,
                  allValues[1], allValues[2], allValues[3])

\* ---------------------------------------------------- script.js: await
\* faulty variant: a rejected lookup is treated as a missing asset and the function goes on
AwaitContinuesAlways(st) == TRUE

\* await hands back the value of a resolved promise and throws on a rejected one
AwaitContinues(st) == st = "resolved"

AwaitReact ==
    /\ HeadIs("react")
    /\ variant = "script"
    /\ method = 2
    /\ UNCHANGED <<variant, scalar, patch, method, invoked, lvalue, now, start,
                   allState, allValues, remaining, allErr>>
    /\ LET i == Head(microtasks).i
           rest == Tail(microtasks)
       IN IF AwaitContinues(lstate[i])
          THEN IF i < 3
               THEN /\ bound' = [bound EXCEPT ![i] = lvalue[i]]
                    /\ \E d \in Latencies :
                        /\ lat' = [lat EXCEPT ![i + 1] = d]
                        /\ due' = [due EXCEPT ![i + 1] = now + d]
                    /\ lstate' = [lstate EXCEPT ![i + 1] = "pending"]
                    /\ microtasks' = rest
                    /\ UNCHANGED <<body, log, writes, unhandled>>
               ELSE /\ BodyEffect(rest, Handler(2), log, now, TRUE,
                                  bound[1], bound[2], lvalue[3])
                    /\ UNCHANGED <<lstate, due, lat>>
          ELSE /\ Raise(rest, Handler(2), LookupErr[i])
               /\ UNCHANGED <<lstate, due, lat, bound, body, log, writes>>

\* ------------------------------------------------ script.js: the catches
\* .catch(err => Diagnostics.log(err.stack)) of a method
MethodCatch ==
    /\ HeadIs("catch")
    /\ log' = log \o LogStack(Head(microtasks).err)
    /\ microtasks' = Tail(microtasks)
    /\ UNCHANGED <<variant, scalar, patch, method, invoked, lstate, lvalue, due,
                   lat, now, start, allState, allValues, remaining, allErr, bound,
                   body, writes, unhandled>>

\* .catch(err => Diagnostics.log(err.stack)) of the getScalar chain
ChainCatch ==
    /\ HeadIs("chaincatch")
    /\ log' = log \o LogStack(Head(microtasks).err)
    /\ microtasks' = Tail(microtasks)
    /\ UNCHANGED <<variant, scalar, patch, method, invoked, lstate, lvalue, due,
                   lat, now, start, allState, allValues, remaining, allErr, bound,
                   body, writes, unhandled>>

Next ==
    \/ ScalarResolve
    \/ ScalarReject
    \/ DispatchOutOfRange
    \/ DeprecatedMethods
    \/ PromiseAllMethods
    \/ AsyncAwaitMethods
    \/ AsyncAndPromiseAllMethods
    \/ \E i \in Lookups : LookupResolve(i)
    \/ \E i \in Lookups : LookupReject(i)
    \/ Tick
    \/ AllReact
    \/ AllBody
    \/ AwaitReact
    \/ MethodCatch
    \/ ChainCatch

Spec == Init /\ [][Next]_vars

\* ------------------------------------- README.md: the nested-promise example
\* findFirst(..).then(faceMesh => { findFirst(..).then(faceMat => {
\*   findFirst(..).then(tex => {..}); }); }).catch(..)
\* the callbacks return nothing, so only the outermost promise is chained to the catch
NestedHandler(i) == IF i = 1 THEN "catch" ELSE "none"

InitNested ==
    /\ InitCommon
    /\ variant = "nested"
    /\ scalar = "none"
    /\ microtasks = <<>>
    /\ \E d \in Latencies :
        /\ lat = [i \in Lookups |-> IF i = 1 THEN d ELSE 0]
        /\ due = [i \in Lookups |-> IF i = 1 THEN now + d ELSE 0]
    /\ lstate = [i \in Lookups |-> IF i = 1 THEN "pending" ELSE "unissued"]

NestedReact ==
    /\ HeadIs("react")
    /\ variant = "nested"
    /\ UNCHANGED <<variant, scalar, patch, method, invoked, lvalue, now, start,
                   allState, allValues, remaining, allErr>>
    /\ LET i == Head(microtasks).i
           rest == Tail(microtasks)
       IN IF lstate[i] = "resolved"
          THEN IF i < 3
               THEN /\ bound' = [bound EXCEPT ![i] = lvalue[i]]
                    /\ \E d \in Latencies :
                        /\ lat' = [lat EXCEPT ![i + 1] = d]
                        /\ due' = [due EXCEPT ![i + 1] = now + d]
                    /\ lstate' = [lstate EXCEPT ![i + 1] = "pending"]
                    /\ microtasks' = rest
                    /\ UNCHANGED <<body, log, writes, unhandled>>
               ELSE /\ BodyEffect(rest, NestedHandler(3), log, now, FALSE,
                                  bound[1], bound[2], lvalue[3])
                    /\ UNCHANGED <<lstate, due, lat>>
          ELSE /\ Raise(rest, NestedHandler(i), LookupErr[i])
               /\ UNCHANGED <<lstate, due, lat, bound, body, log, writes>>

NextNested ==
    \/ \E i \in Lookups : LookupResolve(i)
    \/ \E i \in Lookups : LookupReject(i)
    \/ Tick
    \/ NestedReact
    \/ MethodCatch

SpecNested == InitNested /\ [][NextNested]_vars

\* ------------------------------------------------------------ properties
Quiescent ==
    /\ scalar # "pending"
    /\ microtasks = <<>>
    /\ \A i \in Lookups : lstate[i] # "pending"

Count(kind) == Cardinality({k \in DOMAIN log : log[k].kind = kind})
Occurrences(e) ==
    Cardinality({k \in DOMAIN log : log[k].kind = "error" /\ log[k].err = e})
Rejected == {i \in Lookups : lstate[i] = "rejected"}
Pending == {i \in Lookups : lstate[i] = "pending"}
AllFound == \A i \in Lookups : lstate[i] = "resolved" /\ lvalue[i] = AssetName[i]
IssuedAt(i) == due[i] - lat[i]

\* C1: once the getScalar promise has resolved and its then callback has run,
\* exactly one method was invoked, once, and it is the one at position
\* (patch value modulo 4) of methods, for every patch value.
C1_DispatchTotal ==
    (scalar = "resolved" /\ ~HeadIs("dispatch")) =>
        /\ Len(invoked) = 1
        /\ invoked[1] = patch % Len(methods)

\* C2 as stated: when the script has come to rest, every promise that rejected
\* (the getScalar promise, each findFirst promise of methods 1 to 3) has its
\* error logged exactly once, also when several lookups of a batch reject.
C2_EveryRejectionLogged ==
    Quiescent =>
        /\ scalar = "rejected" => Occurrences(ScalarErr) = 1
        /\ method \in 1..3 => \A i \in Rejected : Occurrences(LookupErr[i]) = 1

\* C2 amended: the getScalar rejection and every rejection of a sequentially
\* awaited lookup is logged once; of the rejections of a Promise.all batch the
\* first one to reject is logged once and the later ones are not logged.
C2_FirstRejectionLogged ==
    Quiescent =>
        /\ scalar = "rejected" => Occurrences(ScalarErr) = 1
        /\ method = 2 => \A i \in Rejected : Occurrences(LookupErr[i]) = 1
        /\ (method \in {1, 3} /\ Rejected # {}) =>
             \E i \in Rejected :
                /\ \A j \in Rejected : due[i] <= due[j]
                /\ allErr = LookupErr[i]
                /\ Occurrences(LookupErr[i]) = 1
                /\ \A j \in Rejected \ {i} : Occurrences(LookupErr[j]) = 0

C2_Witness ==
    /\ Quiescent
    /\ method \in {1, 3}
    /\ Cardinality(Rejected) >= 2
    /\ Count("error") = 1

\* C3: in the nested example a then callback runs only when its lookup
\* resolved, and when any of the three lookups rejected or a callback threw,
\* the one catch handler ran and logged the error (nothing stays unhandled).
C3_NestedCatchRuns ==
    variant = "nested" =>
        /\ lstate[2] # "unissued" => lstate[1] = "resolved"
        /\ lstate[3] # "unissued" => lstate[2] = "resolved"
        /\ body # "notrun" => lstate[3] = "resolved"
        /\ (Quiescent /\ (Rejected # {} \/ body = "threw")) =>
              /\ Count("error") = 1
              /\ unhandled = {}

\* C4: whichever of the four methods ran, if all three lookups found their
\* asset then at rest the only writes are material0.diffuse = texture0 followed
\* by faceMesh0.material = material0, and the log holds the method's start
\* message and its completion message and nothing else.
C4_SameOperations ==
    (Quiescent /\ method \in 0..3 /\ AllFound) =>
        /\ writes = <<Write(AssetName[2], "diffuse", AssetName[3]),
                      Write(AssetName[1], "material", AssetName[2])>>
        /\ Len(log) = 2
        /\ log[1] = StartMsg(method)
        /\ log[2].kind = "done" /\ log[2].m = method
        /\ unhandled = {}

C4_Witness ==
    /\ Quiescent
    /\ method = 1
    /\ AllFound
    /\ lat[3] < lat[1]
    /\ Len(writes) = 2

\* C5: in the two Promise.all methods the result array holds each lookup's
\* result at the position it was requested at, and faceMesh, faceMat, tex are
\* bound to the results of the first, second and third lookup, in whatever
\* order the lookups resolved.
C5_ResultOrder ==
    method \in {1, 3} =>
        /\ allState = "resolved" => \A i \in Lookups : allValues[i] = lvalue[i]
        /\ body # "notrun" => bound = <<lvalue[1], lvalue[2], lvalue[3]>>

C5_Witness ==
    /\ method \in {1, 3}
    /\ body = "ran"
    /\ AllFound
    /\ lat[3] < lat[2]
    /\ lat[2] < lat[1]

\* C6: in the two Promise.all methods the three lookups are all issued at the
\* instant the method starts, before any of them settles, and the assignments
\* and the completion message happen only when all three have resolved.
C6_Barrier ==
    method \in {1, 3} =>
        /\ \A i \in Lookups : lstate[i] # "unissued" /\ IssuedAt(i) = start
        /\ \A i \in Lookups : due[i] > start
        /\ (body # "notrun" \/ writes # <<>> \/ Count("done") > 0) =>
              \A i \in Lookups : lstate[i] = "resolved"

C6_Witness ==
    /\ method \in {1, 3}
    /\ body = "ran"
    /\ Count("done") = 1
    /\ lat[1] < lat[2]
    /\ lat[3] < lat[2]

\* C7: in asyncAwaitMethods a lookup is issued only when the one before it has
\* resolved (at that very instant), at most one lookup is pending, and after a
\* rejected lookup no later lookup is issued.
C7_Sequential ==
    method = 2 =>
        /\ Cardinality(Pending) <= 1
        /\ \A i \in 2..3 :
             lstate[i] # "unissued" =>
                /\ lstate[i - 1] = "resolved"
                /\ IssuedAt(i) = due[i - 1]
        /\ \A i \in Rejected : \A j \in Lookups : j > i => lstate[j] = "unissued"

C7_Witness ==
    /\ method = 2
    /\ Quiescent
    /\ lstate = [i \in Lookups |-> IF i = 1 THEN "resolved"
                                   ELSE IF i = 2 THEN "rejected" ELSE "unissued"]

\* C8: the elapsed time in a completion message is the sum of the three
\* latencies for asyncAwaitMethods and their maximum for the two Promise.all
\* methods (3 and 1 when every lookup takes one unit).
C8_Elapsed ==
    \A k \in DOMAIN log :
        log[k].kind = "done" =>
            /\ log[k].m = 2 => log[k].elapsed = lat[1] + lat[2] + lat[3]
            /\ log[k].m \in {1, 3} => log[k].elapsed = Max3(lat)

C8_Witness ==
    /\ method = 2
    /\ Count("done") = 1
    /\ start > 0
    /\ lat = [i \in Lookups |-> 1]
    /\ log[Len(log)].elapsed = 3

\* C9: in methods 1 to 3 a rejected lookup means no property is ever written and
\* no completion message is logged; and in every method a write of material is
\* preceded by a write of diffuse.
C9_NoPartialEffect ==
    /\ (method \in 1..3 /\ Rejected # {}) => (writes = <<>> /\ Count("done") = 0)
    /\ \A k \in DOMAIN writes :
         writes[k].prop = "material" =>
            \E j \in DOMAIN writes : j < k /\ writes[j].prop = "diffuse"

C9_Witness ==
    /\ Quiescent
    /\ method \in {1, 3}
    /\ lstate = [i \in Lookups |-> IF i = 3 THEN "rejected" ELSE "resolved"]
    /\ due[3] > due[1]
    /\ Count("error") = 1

\* C10: at rest the log holds exactly one terminal message, the completion
\* message of the method that ran or one error stack, and no rejection or throw
\* is left unhandled.
C10_OneOutcome ==
    Quiescent =>
        /\ Count("done") + Count("error") = 1
        /\ unhandled = {}
        /\ \A k \in DOMAIN log : log[k].kind = "done" => log[k].m = method

C10_Witness ==
    /\ Quiescent
    /\ method = 0
    /\ body = "threw"
    /\ Count("error") = 1
    /\ Count("done") = 0

====
